---- MODULE Spec2Model ----
(***************************************************************************)
(* simplefuse: an in-memory filesystem (src/simplefuse/filesystem.py).     *)
(*                                                                         *)
(* The object graph is a heap `nodes` of Node objects (Directory, File,    *)
(* Symlink); a Directory's children map holds references (heap indices).   *)
(* Every facade operation of class Filesystem is an operator Fs_<name>     *)
(* from the heap (and the clock) to a result record                        *)
(*     [nodes |-> heap afterwards, err |-> outcome, ret |-> return value]  *)
(* and an action that applies it.  Outcomes are "ok", the errno of a       *)
(* FuseOSError ("ENOENT", "EPERM", "ENOATTR") or the name of the Python    *)
(* exception that escapes the facade ("AttributeError", "KeyError",        *)
(* "TypeError").                                                           *)
(***************************************************************************)
EXTENDS Integers, Sequences, FiniteSets, TLC

VARIABLES nodes, now, calls

vars == <<nodes, now, calls>>

----------------------------------------------------------------------------
(* Bounds of the model *)

\* non-root nodes alive at the same time (heap slots 1..MaxNodes)
MaxNodes == 2
\* facade calls in one run
MaxCalls == 3
\* ticks of the clock after import
MaxTime == 1
\* longest buffer handed to write
MaxBufLen == 1
\* largest offset / length handed to read, write, truncate
MaxOffset == 1

----------------------------------------------------------------------------
(* Program constants *)

S_IFDIR == 16384
S_IFREG == 32768
S_IFLNK == 40960
\* 0o655, 0o755
NodeDefaultPerm == 429
DefaultPerm == 493
\* os.getuid(), os.getgid() of the process
ProcUid == 0
ProcGid == 0
\* value of time() when the module was imported: the default arguments of
\* set_ctime, set_mtime, set_atime and the default root Directory() are
\* evaluated once, at that moment
ImportTime == 0

Root == 0
NodeIds == 0..MaxNodes

Sep == "/"

----------------------------------------------------------------------------
(* Values and dictionaries *)

\* Python values held in a node's attr dict: ints and bytes
IntV(n) == <<"int", n>>
BytesV(b) == <<"bytes", b>>
IsInt(v) == v[1] = "int"
Val(v) == v[2]

\* d[k] = v
Put(d, k, v) == [x \in (DOMAIN d) \cup {k} |-> IF x = k THEN v ELSE d[x]]
\* del d[k]
Del(d, k) == [x \in (DOMAIN d) \ {k} |-> d[x]]

RECURSIVE BitOr(_, _)
BitOr(a, b) ==
    IF a = 0 THEN b
    ELSE IF b = 0 THEN a
    ELSE (IF a % 2 = 1 \/ b % 2 = 1 THEN 1 ELSE 0) + 2 * BitOr(a \div 2, b \div 2)

Min(a, b) == IF a < b THEN a ELSE b

\* Python slice s[i:j] for 0 <= i, 0 <= j
Slice(s, i, j) == SubSeq(s, i + 1, Min(j, Len(s)))

----------------------------------------------------------------------------
(* Paths: strings over the separator and two letters, as sequences of      *)
(* one-character strings                                                   *)

\* "/", "/a", "/b", "/a/", "//b", "/a/b", "/b/a"
Paths == {<<Sep>>, <<Sep, "a">>, <<Sep, "b">>, <<Sep, "a", Sep>>, <<Sep, Sep, "b">>,
          <<Sep, "a", Sep, "b">>, <<Sep, "b", Sep, "a">>}

\* position of the first separator of s, 0 when there is none
FindSep(s) ==
    IF \E i \in 1..Len(s) : s[i] = Sep
    THEN CHOOSE i \in 1..Len(s) : s[i] = Sep /\ \A j \in 1..(i - 1) : s[j] # Sep
    ELSE 0

\* position of the last separator of s, 0 when there is none (rfind + 1)
RFindSep(s) ==
    IF \E i \in 1..Len(s) : s[i] = Sep
    THEN CHOOSE i \in 1..Len(s) : s[i] = Sep /\ \A j \in (i + 1)..Len(s) : s[j] # Sep
    ELSE 0

\* path.split(os.sep): every component, the empty ones included
RECURSIVE StrSplit(_)
StrSplit(s) ==
    LET i == FindSep(s) IN
    IF i = 0 THEN <<s>>
    ELSE <<SubSeq(s, 1, i - 1)>> \o StrSplit(SubSeq(s, i + 1, Len(s)))

\* head.rstrip(sep)
RECURSIVE RStrip(_)
RStrip(s) ==
    IF s # <<>> /\ s[Len(s)] = Sep THEN RStrip(SubSeq(s, 1, Len(s) - 1)) ELSE s

\* os.path.split(p): <<head, tail>>
OsPathSplit(p) ==
    LET i == RFindSep(p)
        head == SubSeq(p, 1, i)
        tail == SubSeq(p, i + 1, Len(p))
    IN  IF head # <<>> /\ \E j \in 1..Len(head) : head[j] # Sep
        THEN <<RStrip(head), tail>>
        ELSE <<head, tail>>

\* The two splits of the paths the calls are made with, and of their parent
\* paths, computed once; of any other path, computed on the spot
KnownPaths == Paths \cup {OsPathSplit(p)[1] : p \in Paths}
StrSplitTable == [p \in KnownPaths |-> StrSplit(p)]
OsPathSplitTable == [p \in KnownPaths |-> OsPathSplit(p)]
Components(p) == IF p \in KnownPaths THEN StrSplitTable[p] ELSE StrSplit(p)
ParentAndName(p) == IF p \in KnownPaths THEN OsPathSplitTable[p] ELSE OsPathSplit(p)

----------------------------------------------------------------------------
(* Node objects *)

StatKeys == {"st_mode", "st_uid", "st_gid", "st_nlink", "st_size",
             "st_ctime", "st_mtime", "st_atime"}

\* a heap slot that holds no object
Free == [kind |-> "free", attr |-> <<>>, fd |-> 0, children |-> <<>>,
         content |-> <<>>, target |-> <<>>]

\* Node.__init__ at time t
Node_init(t) ==
    [k \in StatKeys |->
        CASE k = "st_mode" -> IntV(BitOr(NodeDefaultPerm, S_IFREG))
          [] k = "st_uid" -> IntV(ProcUid)
          [] k = "st_gid" -> IntV(ProcGid)
          [] k = "st_nlink" -> IntV(1)
          [] k = "st_size" -> IntV(0)
          [] OTHER -> IntV(t)]

\* Directory.__init__
Directory_init(t) ==
    [kind |-> "dir",
     attr |-> Put(Node_init(t), "st_mode", IntV(BitOr(DefaultPerm, S_IFDIR))),
     fd |-> 0, children |-> <<>>, content |-> <<>>, target |-> <<>>]

\* File.__init__ with set_content(content)
File_init(t, content) ==
    [kind |-> "file",
     attr |-> Put(Put(Node_init(t), "st_mode", IntV(BitOr(DefaultPerm, S_IFREG))),
                  "st_size", IntV(Len(content))),
     fd |-> 0, children |-> <<>>, content |-> content, target |-> <<>>]

\* Symlink.__init__
Symlink_init(t, target) ==
    [kind |-> "symlink",
     attr |-> Put(Node_init(t), "st_mode", IntV(BitOr(DefaultPerm, S_IFLNK))),
     fd |-> 0, children |-> <<>>, content |-> <<>>, target |-> target]

\* the methods a class defines or inherits; calling any other one raises
\* AttributeError
NodeMethods == {"chown", "getattr", "getxattr", "removexattr", "setxattr",
                "utimes", "set_ctime", "set_mtime", "set_atime"}

Methods(kind) ==
    CASE kind = "dir" ->
            NodeMethods \cup {"get_child", "add_child", "remove_child", "chmod",
                              "create", "mkdir", "readdir", "rename", "rmdir",
                              "symlink", "unlink"}
      [] kind = "file" ->
            NodeMethods \cup {"set_content", "chmod", "open", "read", "write",
                              "truncate"}
      [] kind = "symlink" -> NodeMethods \cup {"readlink"}
      [] kind = "dictdir" ->
            NodeMethods \cup {"get_child", "add_child", "remove_child", "chmod",
                              "create", "mkdir", "readdir", "rename", "rmdir",
                              "symlink", "unlink", "get_dict"}
      [] OTHER -> {}

Has(h, n, method) == method \in Methods(h[n].kind)

\* decorators.readonly: the members of the class named in member_to_noop
\* are replaced by a function that raises FuseOSError(EPERM)
member_to_noop == {"chmod", "chown", "create", "mkdir", "removexattr", "rename",
                   "rmdir", "setxattr", "symlink", "truncate", "unlink", "utimes",
                   "write"}

\* the class DictDirectory is decorated with readonly; Directory, File and
\* Symlink are not
Noop(h, n, method) ==
    h[n].kind = "dictdir" /\ method \in Methods("dictdir") \cap member_to_noop

Live(h) == {n \in NodeIds : h[n].kind # "free"}

\* the heap with attr[k] = v in node n
SetAttr(h, n, k, v) == [h EXCEPT ![n].attr = Put(@, k, v)]

\* Node.set_ctime(), Node.set_mtime(), Node.set_atime(): the callers pass no
\* argument, so the default, evaluated at import, is stored
set_ctime(h, n) == SetAttr(h, n, "st_ctime", IntV(ImportTime))

set_mtime(h, n) ==
    SetAttr(SetAttr(h, n, "st_ctime", IntV(ImportTime)), n, "st_mtime", IntV(ImportTime))

set_atime(h, n) == SetAttr(h, n, "st_atime", IntV(ImportTime))

\* results of a call
Ok(h, ret) == [nodes |-> h, err |-> "ok", ret |-> ret]
Raise(h, err) == [nodes |-> h, err |-> err, ret |-> "None"]

\* Objects nothing refers to any more are destroyed (reference counting):
\* a node stays while some live directory lists it, the root while the
\* Filesystem holds it.  Objects on a reference cycle stay.
RECURSIVE Release(_)
Release(h) ==
    LET dead == {n \in Live(h) \ {Root} :
                    \A d \in Live(h) : \A c \in DOMAIN h[d].children :
                        h[d].children[c] # n}
    IN  IF dead = {} THEN h
        ELSE Release([n \in NodeIds |-> IF n \in dead THEN Free ELSE h[n]])

\* the slot a new object takes
HasFree(h) == \E n \in NodeIds : h[n].kind = "free"
Alloc(h) == CHOOSE n \in NodeIds : h[n].kind = "free" /\ \A m \in NodeIds : h[m].kind = "free" => n <= m

----------------------------------------------------------------------------
(* Node: the methods every class inherits *)

\* Node.chown
Node_chown(h, n, uid, gid) ==
    Ok(set_ctime(SetAttr(SetAttr(h, n, "st_uid", IntV(uid)), n, "st_gid", IntV(gid)), n),
       "None")

\* Node.getattr
Node_getattr(h, n) == Ok(h, h[n].attr)

\* Node.getxattr: the attr dict itself is read
Node_getxattr(h, n, name) ==
    IF name \in DOMAIN h[n].attr THEN Ok(h, h[n].attr[name]) ELSE Raise(h, "ENOATTR")

\* Node.removexattr
Node_removexattr(h, n, name) ==
    IF name \in DOMAIN h[n].attr
    THEN Ok([h EXCEPT ![n].attr = Del(@, name)], "None")
    ELSE Raise(h, "ENOATTR")

\* Node.setxattr gone wrong: a key that is present keeps its value (setdefault)
Node_setxattr_keeps_first(h, n, name, value) ==
    IF name \in DOMAIN h[n].attr THEN Ok(h, "None")
    ELSE Ok(SetAttr(h, n, name, BytesV(value)), "None")

\* Node.setxattr
Node_setxattr(h, n, name, value) == Ok(SetAttr(h, n, name, BytesV(value)), "None")

\* Node.utimes: times is <<>> for None, or <<atime, mtime>>
Node_utimes(h, t, n, times) ==
    LET atime == IF times # <<>> THEN times[1] ELSE t
        mtime == IF times # <<>> THEN times[2] ELSE t
    IN  Ok(SetAttr(SetAttr(h, n, "st_atime", IntV(atime)), n, "st_mtime", IntV(mtime)),
           "None")

----------------------------------------------------------------------------
(* Directory *)

\* Directory.add_child: an entry of the same name is replaced
add_child(h, d, name, node) == [h EXCEPT ![d].children = Put(@, name, node)]

\* Directory.chmod
Directory_chmod(h, d, mode) ==
    Ok(set_ctime(SetAttr(h, d, "st_mode", IntV(BitOr(mode, S_IFDIR))), d), "None")

\* Directory.create: the handle returned is the directory's own counter
Directory_create(h, t, d, name, mode) ==
    LET n == Alloc(h)
        file == [File_init(t, <<>>) EXCEPT
                    !.attr = Put(@, "st_mode", IntV(BitOr(mode, S_IFREG)))]
        h1 == add_child([h EXCEPT ![n] = file], d, name, n)
        h2 == [h1 EXCEPT ![d].fd = @ + 1]
    IN  Ok(Release(set_ctime(h2, d)), h2[d].fd)

\* Directory.mkdir: the mode is stored in self, the directory called
Directory_mkdir(h, t, d, name, mode) ==
    LET n == Alloc(h)
        h1 == SetAttr([h EXCEPT ![n] = Directory_init(t)], d, "st_mode",
                      IntV(BitOr(mode, S_IFDIR)))
        h2 == add_child(h1, d, name, n)
    IN  IF "st_nlink" \notin DOMAIN h2[d].attr THEN Raise(Release(h2), "KeyError")
        ELSE IF ~IsInt(h2[d].attr["st_nlink"]) THEN Raise(Release(h2), "TypeError")
        ELSE Ok(Release(set_mtime(SetAttr(h2, d, "st_nlink",
                                          IntV(Val(h2[d].attr["st_nlink"]) + 1)), d)),
                "None")

\* an order of a finite set, for the listing
RECURSIVE SeqOf(_)
SeqOf(S) == IF S = {} THEN <<>> ELSE LET x == CHOOSE y \in S : TRUE IN <<x>> \o SeqOf(S \ {x})

\* Directory.readdir gone wrong: the two first entries are not produced
Directory_readdir_no_dots(h, d) == Ok(set_atime(h, d), SeqOf(DOMAIN h[d].children))

\* Directory.readdir, consumed to its end
Directory_readdir(h, d) ==
    Ok(set_atime(h, d), <<<<".">>, <<".", ".">>>> \o SeqOf(DOMAIN h[d].children))

\* Directory.rename: remove_child, then add_child on the new parent
Directory_rename(h, d, old_name, new_name, np) ==
    IF old_name \notin DOMAIN h[d].children THEN Raise(h, "ENOENT")
    ELSE LET node == h[d].children[old_name]
             h1 == [h EXCEPT ![d].children = Del(@, old_name)]
         IN  IF ~Has(h1, np, "add_child") THEN Raise(Release(h1), "AttributeError")
             ELSE Ok(Release(set_ctime(set_mtime(set_mtime(
                        add_child(h1, np, new_name, node), d), np), node)), "None")

\* Directory.rmdir gone wrong: the link count is left as it was
Directory_rmdir_keeps_link(h, d, name) ==
    IF name \notin DOMAIN h[d].children THEN Raise(h, "ENOENT")
    ELSE Ok(Release(set_mtime([h EXCEPT ![d].children = Del(@, name)], d)), "None")

\* Directory.rmdir: no check of the kind of the child, nor that it is empty
Directory_rmdir(h, d, name) ==
    IF name \notin DOMAIN h[d].children THEN Raise(h, "ENOENT")
    ELSE LET h1 == [h EXCEPT ![d].children = Del(@, name)]
         IN  IF "st_nlink" \notin DOMAIN h1[d].attr THEN Raise(Release(h1), "KeyError")
             ELSE IF ~IsInt(h1[d].attr["st_nlink"]) THEN Raise(Release(h1), "TypeError")
             ELSE Ok(Release(set_mtime(SetAttr(h1, d, "st_nlink",
                                IntV(Val(h1[d].attr["st_nlink"]) - 1)), d)), "None")

\* Directory.symlink
Directory_symlink(h, t, d, name, target) ==
    LET n == Alloc(h)
    IN  Ok(Release(set_mtime(add_child([h EXCEPT ![n] = Symlink_init(t, target)],
                                       d, name, n), d)), "None")

\* Directory.unlink gone wrong: the time is updated, the child stays
Directory_unlink_keeps_child(h, d, name) ==
    IF name \notin DOMAIN h[d].children THEN Raise(h, "ENOENT")
    ELSE Ok(set_mtime(h, d), "None")

\* Directory.unlink
Directory_unlink(h, d, name) ==
    IF name \notin DOMAIN h[d].children THEN Raise(h, "ENOENT")
    ELSE Ok(Release(set_mtime([h EXCEPT ![d].children = Del(@, name)], d)), "None")

----------------------------------------------------------------------------
(* File and Symlink *)

\* File.chmod
File_chmod(h, f, mode) ==
    Ok(set_ctime(SetAttr(h, f, "st_mode", IntV(BitOr(mode, S_IFREG))), f), "None")

\* File.open
File_open(h, f) == Ok([h EXCEPT ![f].fd = @ + 1], h[f].fd + 1)

\* File.read
File_read(h, f, length, offset) ==
    Ok(set_atime(h, f), Slice(h[f].content, offset, offset + length))

\* File.write gone wrong: the buffer is appended, whatever the offset
File_write_append(h, f, buffer, offset) ==
    LET content == h[f].content \o buffer
    IN  Ok(set_mtime(SetAttr([h EXCEPT ![f].content = content], f, "st_size",
                             IntV(Len(content))), f), "None")

\* File.write
File_write(h, f, buffer, offset) ==
    LET content == Slice(h[f].content, 0, offset) \o buffer
    IN  Ok(set_mtime(SetAttr([h EXCEPT ![f].content = content], f, "st_size",
                             IntV(Len(content))), f), "None")

\* File.truncate: st_size is not touched
File_truncate(h, f, length) ==
    Ok(set_mtime([h EXCEPT ![f].content = Slice(@, 0, length)], f), "None")

\* Symlink.readlink
Symlink_readlink(h, l) == Ok(set_atime(h, l), h[l].target)

----------------------------------------------------------------------------
(* Filesystem: the facade *)

\* Filesystem._get_node: [err, node].  An AttributeError of get_child (the
\* node walked into is no Directory) becomes EPERM, its KeyError ENOENT.
RECURSIVE Walk(_, _, _)
Walk(h, node, names) ==
    IF names = <<>> THEN [err |-> "ok", node |-> node]
    ELSE IF Head(names) = <<>> THEN Walk(h, node, Tail(names))
    ELSE IF ~Has(h, node, "get_child") THEN [err |-> "EPERM", node |-> node]
    ELSE IF Head(names) \notin DOMAIN h[node].children THEN [err |-> "ENOENT", node |-> node]
    ELSE Walk(h, h[node].children[Head(names)], Tail(names))

\* _get_node gone wrong: the AttributeError is reported like the KeyError
Fs_get_node_one_error(h, path) ==
    LET r == Walk(h, Root, StrSplit(path))
    IN  IF r.err = "EPERM" THEN [r EXCEPT !.err = "ENOENT"] ELSE r

Fs_get_node(h, path) == Walk(h, Root, Components(path))

\* Filesystem.chmod
Fs_chmod(h, path, mode) ==
    LET r == Fs_get_node(h, path) IN
    IF r.err # "ok" THEN Raise(h, r.err)
    ELSE IF ~Has(h, r.node, "chmod") THEN Raise(h, "AttributeError")
    ELSE IF Noop(h, r.node, "chmod") THEN Raise(h, "EPERM")
    ELSE LET c == IF h[r.node].kind = "dir" THEN Directory_chmod(h, r.node, mode)
                  ELSE File_chmod(h, r.node, mode)
         IN  [c EXCEPT !.ret = 0]

\* Filesystem.chown
Fs_chown(h, path, uid, gid) ==
    LET r == Fs_get_node(h, path) IN
    IF r.err # "ok" THEN Raise(h, r.err)
    ELSE IF Noop(h, r.node, "chown") THEN Raise(h, "EPERM")
    ELSE Node_chown(h, r.node, uid, gid)

\* Filesystem.create
Fs_create(h, t, path, mode) ==
    LET sp == ParentAndName(path)
        r == Fs_get_node(h, sp[1])
    IN  IF r.err # "ok" THEN Raise(h, r.err)
        ELSE IF ~Has(h, r.node, "create") THEN Raise(h, "AttributeError")
        ELSE IF Noop(h, r.node, "create") THEN Raise(h, "EPERM")
        ELSE Directory_create(h, t, r.node, sp[2], mode)

\* Filesystem.getattr
Fs_getattr(h, path) ==
    LET r == Fs_get_node(h, path) IN
    IF r.err # "ok" THEN Raise(h, r.err) ELSE Node_getattr(h, r.node)

\* Filesystem.getxattr
Fs_getxattr(h, path, name) ==
    LET r == Fs_get_node(h, path) IN
    IF r.err # "ok" THEN Raise(h, r.err) ELSE Node_getxattr(h, r.node, name)

\* Filesystem.listxattr: the keys of the attr dict
Fs_listxattr(h, path) ==
    LET r == Fs_get_node(h, path) IN
    IF r.err # "ok" THEN Raise(h, r.err) ELSE Ok(h, DOMAIN h[r.node].attr)

\* Filesystem.mkdir
Fs_mkdir(h, t, path, mode) ==
    LET sp == ParentAndName(path)
        r == Fs_get_node(h, sp[1])
    IN  IF r.err # "ok" THEN Raise(h, r.err)
        ELSE IF ~Has(h, r.node, "mkdir") THEN Raise(h, "AttributeError")
        ELSE IF Noop(h, r.node, "mkdir") THEN Raise(h, "EPERM")
        ELSE Directory_mkdir(h, t, r.node, sp[2], mode)

\* Filesystem.open
Fs_open(h, path) ==
    LET r == Fs_get_node(h, path) IN
    IF r.err # "ok" THEN Raise(h, r.err)
    ELSE IF ~Has(h, r.node, "open") THEN Raise(h, "AttributeError")
    ELSE File_open(h, r.node)

\* Filesystem.read
Fs_read(h, path, size, offset) ==
    LET r == Fs_get_node(h, path) IN
    IF r.err # "ok" THEN Raise(h, r.err)
    ELSE IF ~Has(h, r.node, "read") THEN Raise(h, "AttributeError")
    ELSE File_read(h, r.node, size, offset)

\* Filesystem.readdir
Fs_readdir(h, path) ==
    LET r == Fs_get_node(h, path) IN
    IF r.err # "ok" THEN Raise(h, r.err)
    ELSE IF ~Has(h, r.node, "readdir") THEN Raise(h, "AttributeError")
    ELSE Directory_readdir(h, r.node)

\* Filesystem.readlink
Fs_readlink(h, path) ==
    LET r == Fs_get_node(h, path) IN
    IF r.err # "ok" THEN Raise(h, r.err)
    ELSE IF ~Has(h, r.node, "readlink") THEN Raise(h, "AttributeError")
    ELSE Symlink_readlink(h, r.node)

\* Filesystem.removexattr
Fs_removexattr(h, path, name) ==
    LET r == Fs_get_node(h, path) IN
    IF r.err # "ok" THEN Raise(h, r.err)
    ELSE IF Noop(h, r.node, "removexattr") THEN Raise(h, "EPERM")
    ELSE Node_removexattr(h, r.node, name)

\* Filesystem.rename: both parents are resolved, then Directory.rename
Fs_rename(h, old, new) ==
    LET o == ParentAndName(old)
        n == ParentAndName(new)
        ro == Fs_get_node(h, o[1])
        rn == Fs_get_node(h, n[1])
    IN  IF ro.err # "ok" THEN Raise(h, ro.err)
        ELSE IF rn.err # "ok" THEN Raise(h, rn.err)
        ELSE IF ~Has(h, ro.node, "rename") THEN Raise(h, "AttributeError")
        ELSE IF Noop(h, ro.node, "rename") THEN Raise(h, "EPERM")
        ELSE Directory_rename(h, ro.node, o[2], n[2], rn.node)

\* Filesystem.rmdir
Fs_rmdir(h, path) ==
    LET sp == ParentAndName(path)
        r == Fs_get_node(h, sp[1])
    IN  IF r.err # "ok" THEN Raise(h, r.err)
        ELSE IF ~Has(h, r.node, "rmdir") THEN Raise(h, "AttributeError")
        ELSE IF Noop(h, r.node, "rmdir") THEN Raise(h, "EPERM")
        ELSE Directory_rmdir(h, r.node, sp[2])

\* Filesystem.setxattr
Fs_setxattr(h, path, name, value) ==
    LET r == Fs_get_node(h, path) IN
    IF r.err # "ok" THEN Raise(h, r.err)
    ELSE IF Noop(h, r.node, "setxattr") THEN Raise(h, "EPERM")
    ELSE Node_setxattr(h, r.node, name, value)

\* Filesystem.symlink
Fs_symlink(h, t, source, target) ==
    LET sp == ParentAndName(source)
        r == Fs_get_node(h, sp[1])
    IN  IF r.err # "ok" THEN Raise(h, r.err)
        ELSE IF ~Has(h, r.node, "symlink") THEN Raise(h, "AttributeError")
        ELSE IF Noop(h, r.node, "symlink") THEN Raise(h, "EPERM")
        ELSE Directory_symlink(h, t, r.node, sp[2], target)

\* Filesystem.truncate
Fs_truncate(h, path, length) ==
    LET r == Fs_get_node(h, path) IN
    IF r.err # "ok" THEN Raise(h, r.err)
    ELSE IF ~Has(h, r.node, "truncate") THEN Raise(h, "AttributeError")
    ELSE IF Noop(h, r.node, "truncate") THEN Raise(h, "EPERM")
    ELSE File_truncate(h, r.node, length)

\* Filesystem.unlink
Fs_unlink(h, path) ==
    LET sp == ParentAndName(path)
        r == Fs_get_node(h, sp[1])
    IN  IF r.err # "ok" THEN Raise(h, r.err)
        ELSE IF ~Has(h, r.node, "unlink") THEN Raise(h, "AttributeError")
        ELSE IF Noop(h, r.node, "unlink") THEN Raise(h, "EPERM")
        ELSE Directory_unlink(h, r.node, sp[2])

\* Filesystem.utimes: it calls node.utime, a method no class defines
Fs_utimes(h, t, path, times) ==
    LET r == Fs_get_node(h, path) IN
    IF r.err # "ok" THEN Raise(h, r.err)
    ELSE IF ~Has(h, r.node, "utime") THEN Raise(h, "AttributeError")
    ELSE Node_utimes(h, t, r.node, times)

\* Filesystem.write
Fs_write(h, path, buffer, offset) ==
    LET r == Fs_get_node(h, path) IN
    IF r.err # "ok" THEN Raise(h, r.err)
    ELSE IF ~Has(h, r.node, "write") THEN Raise(h, "AttributeError")
    ELSE IF Noop(h, r.node, "write") THEN Raise(h, "EPERM")
    ELSE [File_write(h, r.node, buffer, offset) EXCEPT !.ret = Len(buffer)]

----------------------------------------------------------------------------
(* DictDirectory: a read-only tree built from a dictionary (helpers.py) *)

\* the values of the dictionary: a str, a dict, or something else
Str(content) == <<"str", content>>
Dict(data) == <<"dict", data>>
Other == <<"other">>

\* Directory.__init__ run by DictDirectory.__init__, before the loop
DictDirectory_new(t) == [Directory_init(t) EXCEPT !.kind = "dictdir"]

\* the loop of DictDirectory.__init__ over data.items(): a dict becomes a
\* DictDirectory, a str becomes a File (the class File, as it is), anything
\* else is skipped; todo holds the names still to come
RECURSIVE DictDirectory_fill(_, _, _, _, _)
DictDirectory_fill(h, t, d, data, todo) ==
    IF todo = <<>> THEN h
    ELSE LET name == Head(todo)
             value == data[name]
             n == Alloc(h)
         IN  CASE value[1] = "dict" ->
                    LET h1 == DictDirectory_fill([h EXCEPT ![n] = DictDirectory_new(t)],
                                                 t, n, value[2], SeqOf(DOMAIN value[2]))
                    IN  DictDirectory_fill(add_child(h1, d, name, n), t, d, data, Tail(todo))
               [] value[1] = "str" ->
                    DictDirectory_fill(add_child([h EXCEPT ![n] = File_init(t, value[2])],
                                                 d, name, n), t, d, data, Tail(todo))
               [] OTHER -> DictDirectory_fill(h, t, d, data, Tail(todo))

\* Filesystem(DictDirectory(data)): the heap with the tree as its root
DictDirectory_init(t, data) ==
    DictDirectory_fill([n \in NodeIds |-> IF n = Root THEN DictDirectory_new(t) ELSE Free],
                       t, Root, data, SeqOf(DOMAIN data))

----------------------------------------------------------------------------
(* Inputs of the calls *)

\* 0o600
Modes == {384}
Owners == {<<1000, 1000>>}
Bytes == {1, 2}
Buffers == UNION {[1..k -> Bytes] : k \in 0..MaxBufLen}
Offsets == 0..MaxOffset
XattrNames == {"user.k", "st_nlink"}
XattrValues == {"v1"}
Targets == {<<Sep, "a">>}
Times == {<<>>, <<1, 1>>}

----------------------------------------------------------------------------
(* The state machine *)

\* Filesystem(): the root is the default argument Directory(), built at import
Init ==
    /\ nodes = [n \in NodeIds |-> IF n = Root THEN Directory_init(ImportTime) ELSE Free]
    /\ now = ImportTime
    /\ calls = 0

\* time() moves on
Tick ==
    /\ now < ImportTime + MaxTime
    /\ now' = now + 1
    /\ UNCHANGED <<nodes, calls>>

\* a facade call with result r
Call(r) ==
    /\ calls < MaxCalls
    /\ nodes' = r.nodes
    /\ calls' = calls + 1
    /\ UNCHANGED now

chmod == \E p \in Paths, m \in Modes : Call(Fs_chmod(nodes, p, m))
chown == \E p \in Paths, o \in Owners : Call(Fs_chown(nodes, p, o[1], o[2]))
create == \E p \in Paths, m \in Modes : HasFree(nodes) /\ Call(Fs_create(nodes, now, p, m))
getattr == \E p \in Paths : Call(Fs_getattr(nodes, p))
getxattr == \E p \in Paths, k \in XattrNames : Call(Fs_getxattr(nodes, p, k))
listxattr == \E p \in Paths : Call(Fs_listxattr(nodes, p))
mkdir == \E p \in Paths, m \in Modes : HasFree(nodes) /\ Call(Fs_mkdir(nodes, now, p, m))
open == \E p \in Paths : Call(Fs_open(nodes, p))
read == \E p \in Paths, n \in Offsets, o \in Offsets : Call(Fs_read(nodes, p, n, o))
readdir == \E p \in Paths : Call(Fs_readdir(nodes, p))
readlink == \E p \in Paths : Call(Fs_readlink(nodes, p))
removexattr == \E p \in Paths, k \in XattrNames : Call(Fs_removexattr(nodes, p, k))
rename == \E old \in Paths, new \in Paths : Call(Fs_rename(nodes, old, new))
rmdir == \E p \in Paths : Call(Fs_rmdir(nodes, p))
setxattr ==
    \E p \in Paths, k \in XattrNames, v \in XattrValues : Call(Fs_setxattr(nodes, p, k, v))
symlink ==
    \E p \in Paths, g \in Targets : HasFree(nodes) /\ Call(Fs_symlink(nodes, now, p, g))
truncate == \E p \in Paths, n \in Offsets : Call(Fs_truncate(nodes, p, n))
unlink == \E p \in Paths : Call(Fs_unlink(nodes, p))
utimes == \E p \in Paths, ts \in Times : Call(Fs_utimes(nodes, now, p, ts))
write == \E p \in Paths, b \in Buffers, o \in Offsets : Call(Fs_write(nodes, p, b, o))

Next ==
    \/ chmod \/ chown \/ create \/ getattr \/ getxattr \/ listxattr \/ mkdir
    \/ open \/ read \/ readdir \/ readlink \/ removexattr \/ rename \/ rmdir
    \/ setxattr \/ symlink \/ truncate \/ unlink \/ utimes \/ write

\* every run of at most MaxCalls facade calls on a new Filesystem
Spec == Init /\ [][Next]_vars

\* the same with the clock moving between the calls
NextClock == Tick \/ Next

SpecClock == Init /\ [][NextClock]_vars

\* the dictionaries a read-only tree is built from:
\* {}, {"a": "\x01"}, {"a": {"b": "\x01\x02"}}, {"a": {}, "b": "\x02"},
\* {"a": 7, "b": ""}
DictNames == {"empty", "file", "nested", "mixed", "skipped"}

DictData(id) ==
    CASE id = "empty" -> <<>>
      [] id = "file" -> (<<"a">> :> Str(<<1>>))
      [] id = "nested" -> (<<"a">> :> Dict(<<"b">> :> Str(<<1, 2>>)))
      [] id = "mixed" -> (<<"a">> :> Dict(<<>>)) @@ (<<"b">> :> Str(<<2>>))
      [] id = "skipped" -> (<<"a">> :> Other) @@ (<<"b">> :> Str(<<>>))

\* Filesystem(DictDirectory(data))
InitDict ==
    /\ \E id \in DictNames : nodes = DictDirectory_init(ImportTime, DictData(id))
    /\ now = ImportTime
    /\ calls = 0

\* every run of at most MaxCalls facade calls on such a Filesystem
SpecDict == InitDict /\ [][Next]_vars

----------------------------------------------------------------------------
(* Vocabulary of the properties *)

Files(h) == {n \in Live(h) : h[n].kind = "file"}
Dirs(h) == {n \in Live(h) : h[n].kind \in {"dir", "dictdir"}}

\* the nodes a directory lists
ChildrenOf(h, d) == {h[d].children[c] : c \in DOMAIN h[d].children}

\* the nodes reached from the nodes of S by following child maps at least once
RECURSIVE Below(_, _, _)
Below(h, S, seen) ==
    LET next == (UNION {ChildrenOf(h, d) : d \in S}) \ seen
    IN  IF next = {} THEN seen ELSE Below(h, next, seen \cup next)

Descendants(h, d) == Below(h, {d}, {})

\* the non-empty components of a path
Names(path) == SelectSeq(StrSplit(path), LAMBDA c : c # <<>>)

Front(s) == SubSeq(s, 1, Len(s) - 1)

\* the contract's errors
ContractErrors == {"ok", "ENOENT", "EPERM"}
XattrContractErrors == ContractErrors \cup {"ENOATTR"}

\* the keys of a node that setxattr stored and removexattr has not removed:
\* setxattr stores bytes, every other writer of attr stores a number
XattrKeys(h, n) == {k \in DOMAIN h[n].attr : ~IsInt(h[n].attr[k])}

----------------------------------------------------------------------------
(* C1 *)

\* C1: in every reachable state every File's st_size equals the length of
\* its content.
C1_SizeIsContentLength ==
    \A f \in Files(nodes) :
        /\ "st_size" \in DOMAIN nodes[f].attr
        /\ nodes[f].attr["st_size"] = IntV(Len(nodes[f].content))

----------------------------------------------------------------------------
(* C2 *)

\* C2: no directory is reachable from itself by following child maps, and
\* every node that still exists is reachable from the root.
C2_TreeIsAcyclicAndRooted ==
    \A n \in Live(nodes) :
        /\ n \notin Descendants(nodes, n)
        /\ n = Root \/ n \in Descendants(nodes, Root)

----------------------------------------------------------------------------
(* C3 *)

\* C3: whenever rename(old, new) succeeds, old resolves to NotFound
\* afterwards and new resolves to the node old resolved to before, with the
\* same content, attributes and children.  Stated for the renames that name
\* an entry on both sides (a last component) and two different entries.
C3_RenamePreservesIdentity ==
    \A old \in Paths, new \in Paths :
        LET o == OsPathSplit(old)
            n == OsPathSplit(new)
            before == Fs_get_node(nodes, old)
            r == Fs_rename(nodes, old, new)
            after == Fs_get_node(r.nodes, new)
        IN  (/\ r.err = "ok"
             /\ before.err = "ok"
             /\ o[2] # <<>>
             /\ n[2] # <<>>
             /\ <<Fs_get_node(nodes, o[1]).node, o[2]>> # <<Fs_get_node(nodes, n[1]).node, n[2]>>) =>
                /\ Fs_get_node(r.nodes, old).err = "ENOENT"
                /\ after.err = "ok"
                /\ after.node = before.node
                /\ r.nodes[after.node].content = nodes[before.node].content
                /\ r.nodes[after.node].attr = nodes[before.node].attr
                /\ r.nodes[after.node].children = nodes[before.node].children

----------------------------------------------------------------------------
(* C4 *)

\* C4: for every file, buffer b and offset o at most the length of the
\* content, write(path, b, o) returns len(b) and a read(path, len(b), o)
\* right after it returns b.
C4_WriteReadRoundTrip ==
    \A p \in Paths, b \in UNION {[1..k -> Bytes] : k \in 0..(MaxBufLen + 1)} :
        LET n == Fs_get_node(nodes, p) IN
        (n.err = "ok" /\ nodes[n.node].kind = "file") =>
            \A o \in 0..Len(nodes[n.node].content) :
                LET w == Fs_write(nodes, p, b, o)
                    r == Fs_read(w.nodes, p, Len(b), o)
                IN  /\ w.err = "ok"
                    /\ w.ret = Len(b)
                    /\ r.err = "ok"
                    /\ r.ret = b

\* a file that was written at its end, so that writes in the middle, at the
\* end and at 0 are all open
C4_Witness ==
    \E p \in Paths :
        LET n == Fs_get_node(nodes, p) IN
        /\ n.err = "ok"
        /\ nodes[n.node].kind = "file"
        /\ Len(nodes[n.node].content) >= 2

----------------------------------------------------------------------------
(* C5 *)

\* C5: utimes on a path that resolves succeeds and sets st_atime and
\* st_mtime to the given times, or to the current time when none is given.
C5_UtimesSetsTimes ==
    \A p \in Paths, ts \in Times :
        LET n == Fs_get_node(nodes, p)
            r == Fs_utimes(nodes, now, p, ts)
        IN  n.err = "ok" =>
                /\ r.err = "ok"
                /\ r.nodes[n.node].attr["st_atime"] = IntV(IF ts = <<>> THEN now ELSE ts[1])
                /\ r.nodes[n.node].attr["st_mtime"] = IntV(IF ts = <<>> THEN now ELSE ts[2])

----------------------------------------------------------------------------
(* C6 *)

\* C6: after a successful mkdir(path, mode) the new directory is empty, its
\* mode is mode | S_IFDIR, and the mode of the parent is what it was.
C6_MkdirSetsChildMode ==
    \A p \in Paths, m \in Modes :
        LET sp == OsPathSplit(p)
            par == Fs_get_node(nodes, sp[1])
            r == Fs_mkdir(nodes, now, p, m)
        IN  (HasFree(nodes) /\ r.err = "ok") =>
                LET child == r.nodes[par.node].children[sp[2]] IN
                /\ r.nodes[child].kind = "dir"
                /\ DOMAIN r.nodes[child].children = {}
                /\ r.nodes[child].attr["st_mode"] = IntV(BitOr(m, S_IFDIR))
                /\ r.nodes[par.node].attr["st_mode"] = nodes[par.node].attr["st_mode"]

----------------------------------------------------------------------------
(* C7 *)

\* st_nlink of a node, whatever it holds
LinkOf(h, n) == IF "st_nlink" \in DOMAIN h[n].attr THEN h[n].attr["st_nlink"] ELSE <<"absent">>

\* the nodes other than d that exist before and after a call, with their
\* link count before and after
OthersKeepLinks(h, h2, d) ==
    \A n \in (Live(h) \cap Live(h2)) \ {d} : LinkOf(h2, n) = LinkOf(h, n)

\* C7: a successful mkdir raises the link count of the parent directory by
\* exactly 1, a successful rmdir lowers it by exactly 1, and neither changes
\* the link count of any other node.
C7_MkdirRmdirLinkCount ==
    /\ \A p \in Paths, m \in Modes :
        LET par == Fs_get_node(nodes, OsPathSplit(p)[1])
            r == Fs_mkdir(nodes, now, p, m)
        IN  (HasFree(nodes) /\ r.err = "ok") =>
                /\ LinkOf(r.nodes, par.node) = IntV(Val(LinkOf(nodes, par.node)) + 1)
                /\ OthersKeepLinks(nodes, r.nodes, par.node)
    /\ \A p \in Paths :
        LET par == Fs_get_node(nodes, OsPathSplit(p)[1])
            r == Fs_rmdir(nodes, p)
        IN  r.err = "ok" =>
                /\ LinkOf(r.nodes, par.node) = IntV(Val(LinkOf(nodes, par.node)) - 1)
                /\ OthersKeepLinks(nodes, r.nodes, par.node)

\* a directory made by mkdir inside a directory made by mkdir, so that both
\* link counts were raised, and an rmdir of the inner one that succeeds
C7_Witness ==
    \E p \in Paths :
        LET par == Fs_get_node(nodes, OsPathSplit(p)[1]) IN
        /\ par.err = "ok"
        /\ par.node # Root
        /\ LinkOf(nodes, par.node) = IntV(2)
        /\ LinkOf(nodes, Root) = IntV(2)
        /\ Fs_rmdir(nodes, p).err = "ok"

----------------------------------------------------------------------------
(* C8 *)

\* resolution as the contract describes it, over the non-empty components:
\* the components before the last one are resolved first and their failure
\* is the failure; then the last one is looked up in the directory reached
RECURSIVE Resolve(_, _)
Resolve(h, names) ==
    IF names = <<>> THEN [err |-> "ok", node |-> Root]
    ELSE LET dir == Resolve(h, Front(names))
             name == names[Len(names)]
         IN  IF dir.err # "ok" THEN dir
             ELSE IF h[dir.node].kind # "dir" THEN [err |-> "EPERM", node |-> Root]
             ELSE IF name \notin DOMAIN h[dir.node].children
                  THEN [err |-> "ENOENT", node |-> Root]
             ELSE [err |-> "ok", node |-> h[dir.node].children[name]]

\* C8: resolution walks the non-empty components from the root; the first
\* failing component decides: NotFound when it is no child of the directory
\* reached, PermissionDenied when the node reached is no directory; empty
\* components do not change the node resolved.
C8_ResolutionErrors ==
    \A p \in Paths :
        LET got == Fs_get_node(nodes, p)
            want == Resolve(nodes, Names(p))
        IN  /\ got.err = want.err
            /\ got.err = "ok" => got.node = want.node
            /\ Fs_getattr(nodes, p).err = want.err
            /\ \A q \in Paths : Names(q) = Names(p) =>
                    /\ Fs_get_node(nodes, q).err = got.err
                    /\ got.err = "ok" => Fs_get_node(nodes, q).node = got.node

\* a file below the root and a directory beside it: one path walks into the
\* file, one names a missing child, one with an empty component resolves
C8_Witness ==
    /\ Fs_get_node(nodes, <<Sep, "a", Sep, "b">>).err = "EPERM"
    /\ Fs_get_node(nodes, <<Sep, "b", Sep, "a">>).err = "ENOENT"
    /\ Fs_get_node(nodes, <<Sep, Sep, "b">>).err = "ok"
    /\ Fs_get_node(nodes, <<Sep, Sep, "b">>).node # Root

----------------------------------------------------------------------------
(* C9 *)

\* C9: every facade operation, on every path and in every state, returns or
\* fails with NotFound or PermissionDenied (the xattr operations also with
\* NoSuchAttribute), and with nothing else.
C9_OnlyContractErrors ==
    \A p \in Paths :
        /\ \A m \in Modes : Fs_chmod(nodes, p, m).err \in ContractErrors
        /\ \A o \in Owners : Fs_chown(nodes, p, o[1], o[2]).err \in ContractErrors
        /\ Fs_getattr(nodes, p).err \in ContractErrors
        /\ \A k \in XattrNames :
            /\ Fs_getxattr(nodes, p, k).err \in XattrContractErrors
            /\ Fs_removexattr(nodes, p, k).err \in XattrContractErrors
            /\ \A v \in XattrValues : Fs_setxattr(nodes, p, k, v).err \in XattrContractErrors
        /\ Fs_listxattr(nodes, p).err \in XattrContractErrors
        /\ HasFree(nodes) =>
            /\ \A m \in Modes : Fs_create(nodes, now, p, m).err \in ContractErrors
            /\ \A m \in Modes : Fs_mkdir(nodes, now, p, m).err \in ContractErrors
            /\ \A g \in Targets : Fs_symlink(nodes, now, p, g).err \in ContractErrors
        /\ Fs_open(nodes, p).err \in ContractErrors
        /\ \A n \in Offsets, o \in Offsets : Fs_read(nodes, p, n, o).err \in ContractErrors
        /\ Fs_readdir(nodes, p).err \in ContractErrors
        /\ Fs_readlink(nodes, p).err \in ContractErrors
        /\ \A q \in Paths : Fs_rename(nodes, p, q).err \in ContractErrors
        /\ Fs_rmdir(nodes, p).err \in ContractErrors
        /\ \A n \in Offsets : Fs_truncate(nodes, p, n).err \in ContractErrors
        /\ Fs_unlink(nodes, p).err \in ContractErrors
        /\ \A ts \in Times : Fs_utimes(nodes, now, p, ts).err \in ContractErrors
        /\ \A b \in Buffers, o \in Offsets : Fs_write(nodes, p, b, o).err \in ContractErrors

----------------------------------------------------------------------------
(* C10 *)

\* C10: getxattr and removexattr of a key that setxattr has not stored on
\* the node, or that removexattr removed since, fail with NoSuchAttribute.
C10_AbsentKeyIsNoSuchAttribute ==
    \A p \in Paths, k \in StatKeys \cup XattrNames :
        LET n == Fs_get_node(nodes, p) IN
        (n.err = "ok" /\ k \notin XattrKeys(nodes, n.node)) =>
            /\ Fs_getxattr(nodes, p, k).err = "ENOATTR"
            /\ Fs_removexattr(nodes, p, k).err = "ENOATTR"

----------------------------------------------------------------------------
(* C11 *)

\* C11: on every node, for every key k and value v, setxattr(path, k, v)
\* followed by getxattr(path, k) returns v, also when k held a value before;
\* removexattr(path, k) followed by getxattr(path, k) fails with
\* NoSuchAttribute, whether k was set or not.
C11_XattrRoundTrip ==
    \A p \in Paths, k \in XattrNames \cup {"st_mode"} :
        Fs_get_node(nodes, p).err = "ok" =>
            /\ \A v \in XattrValues \cup {"v2"} :
                \A s \in {Fs_setxattr(nodes, p, k, v)} :
                    /\ s.err = "ok"
                    /\ Fs_getxattr(s.nodes, p, k) = Ok(s.nodes, BytesV(v))
                    /\ \A rm \in {Fs_removexattr(s.nodes, p, k)} :
                        /\ rm.err = "ok"
                        /\ Fs_getxattr(rm.nodes, p, k).err = "ENOATTR"
            /\ Fs_getxattr(Fs_removexattr(nodes, p, k).nodes, p, k).err = "ENOATTR"

\* a node below the root on which setxattr stored a key, so that a second
\* setxattr of the key has a value to replace
C11_Witness ==
    \E p \in Paths :
        LET n == Fs_get_node(nodes, p) IN
        /\ n.err = "ok"
        /\ n.node # Root
        /\ "user.k" \in XattrKeys(nodes, n.node)

----------------------------------------------------------------------------
(* C12 *)

\* the runs that request no explicit time: every facade call but utimes,
\* with the clock moving between the calls
NextNoUtimes ==
    \/ Tick
    \/ chmod \/ chown \/ create \/ getattr \/ getxattr \/ listxattr \/ mkdir
    \/ open \/ read \/ readdir \/ readlink \/ removexattr \/ rename \/ rmdir
    \/ setxattr \/ symlink \/ truncate \/ unlink \/ write

SpecNoUtimes == Init /\ [][NextNoUtimes]_vars

TimeKeys == {"st_ctime", "st_mtime", "st_atime"}

\* a timestamp of node n, when the key holds a number
HasTime(h, n, k) == k \in DOMAIN h[n].attr /\ IsInt(h[n].attr[k])

\* C12: with a clock that never goes back and no utimes, no step lowers the
\* creation/change, modify or access timestamp of a node: a call that
\* updates a timestamp stores a value at least as large as the one the node
\* held, the one given at its creation included.
C12_TimestampsNeverDecrease ==
    [][\A n \in Live(nodes) \cap Live(nodes') : \A k \in TimeKeys :
          (HasTime(nodes, n, k) /\ HasTime(nodes', n, k)) =>
              Val(nodes'[n].attr[k]) >= Val(nodes[n].attr[k])]_vars

----------------------------------------------------------------------------
(* Every call that can be made in a state *)

\* a call as the properties see it: its name, how it ended, the heap it left
Outcome(op, r) == [op |-> op, err |-> r.err, nodes |-> r.nodes]

\* the facade calls on heap h at time t
Outcomes(h, t) ==
    {Outcome("chmod", Fs_chmod(h, p, m)) : p \in Paths, m \in Modes}
    \cup {Outcome("chown", Fs_chown(h, p, o[1], o[2])) : p \in Paths, o \in Owners}
    \cup {Outcome("getattr", Fs_getattr(h, p)) : p \in Paths}
    \cup {Outcome("getxattr", Fs_getxattr(h, p, k)) : p \in Paths, k \in XattrNames}
    \cup {Outcome("listxattr", Fs_listxattr(h, p)) : p \in Paths}
    \cup {Outcome("open", Fs_open(h, p)) : p \in Paths}
    \cup {Outcome("read", Fs_read(h, p, n, o)) : p \in Paths, n \in Offsets, o \in Offsets}
    \cup {Outcome("readdir", Fs_readdir(h, p)) : p \in Paths}
    \cup {Outcome("readlink", Fs_readlink(h, p)) : p \in Paths}
    \cup {Outcome("removexattr", Fs_removexattr(h, p, k)) : p \in Paths, k \in XattrNames}
    \cup {Outcome("rename", Fs_rename(h, p, q)) : p \in Paths, q \in Paths}
    \cup {Outcome("rmdir", Fs_rmdir(h, p)) : p \in Paths}
    \cup {Outcome("setxattr", Fs_setxattr(h, p, k, v)) :
            p \in Paths, k \in XattrNames, v \in XattrValues}
    \cup {Outcome("truncate", Fs_truncate(h, p, n)) : p \in Paths, n \in Offsets}
    \cup {Outcome("unlink", Fs_unlink(h, p)) : p \in Paths}
    \cup {Outcome("utimes", Fs_utimes(h, t, p, ts)) : p \in Paths, ts \in Times}
    \cup {Outcome("write", Fs_write(h, p, b, o)) : p \in Paths, b \in Buffers, o \in Offsets}
    \cup (IF HasFree(h)
          THEN {Outcome("create", Fs_create(h, t, p, m)) : p \in Paths, m \in Modes}
               \cup {Outcome("mkdir", Fs_mkdir(h, t, p, m)) : p \in Paths, m \in Modes}
               \cup {Outcome("symlink", Fs_symlink(h, t, p, g)) : p \in Paths, g \in Targets}
          ELSE {})

----------------------------------------------------------------------------
(* C13 *)

\* the names readdir produces after its two first entries
ListOf(h, d) ==
    LET ret == Directory_readdir(h, d).ret IN {ret[i] : i \in 3..Len(ret)}

\* the directories that exist before and after a call, other than those of S,
\* hold the same names
OthersListTheSame(h, h2, S) ==
    \A d \in (Dirs(h) \cap Dirs(h2)) \ S : DOMAIN h2[d].children = DOMAIN h[d].children

\* C13: readdir on a directory produces "." and ".." followed by exactly the
\* names of its child map, each once; and the child names are the names
\* created and not removed since: a successful create, mkdir or symlink adds
\* its name to the directory it names, a successful unlink or rmdir removes
\* it, a successful rename removes the old name from the old directory and
\* adds the new name to the new one, and no call changes any other name of
\* any directory.
C13_ReaddirListsChildren ==
    /\ \A p \in Paths :
        LET n == Fs_get_node(nodes, p) IN
        (n.err = "ok" /\ nodes[n.node].kind = "dir") =>
            \A r \in {Fs_readdir(nodes, p)} :
                /\ r.err = "ok"
                /\ Len(r.ret) = 2 + Cardinality(DOMAIN nodes[n.node].children)
                /\ r.ret[1] = <<".">>
                /\ r.ret[2] = <<".", ".">>
                /\ {r.ret[i] : i \in 3..Len(r.ret)} = DOMAIN nodes[n.node].children
    /\ \A p \in Paths :
        LET sp == ParentAndName(p)
            par == Fs_get_node(nodes, sp[1]).node
            Adds(r) ==
                r.err = "ok" =>
                    /\ par \in Dirs(r.nodes) =>
                        ListOf(r.nodes, par) = ListOf(nodes, par) \cup {sp[2]}
                    /\ OthersListTheSame(nodes, r.nodes, {par})
            Removes(r) ==
                r.err = "ok" =>
                    /\ par \in Dirs(r.nodes) =>
                        ListOf(r.nodes, par) = ListOf(nodes, par) \ {sp[2]}
                    /\ OthersListTheSame(nodes, r.nodes, {par})
            Keeps(r) ==
                \A d \in Dirs(nodes) :
                    /\ r.nodes[d].kind = nodes[d].kind
                    /\ DOMAIN r.nodes[d].children = DOMAIN nodes[d].children
        IN  /\ HasFree(nodes) =>
                /\ \A m \in Modes : \A r \in {Fs_create(nodes, now, p, m)} : Adds(r)
                /\ \A m \in Modes : \A r \in {Fs_mkdir(nodes, now, p, m)} : Adds(r)
                /\ \A g \in Targets : \A r \in {Fs_symlink(nodes, now, p, g)} : Adds(r)
            /\ \A r \in {Fs_unlink(nodes, p)} : Removes(r)
            /\ \A r \in {Fs_rmdir(nodes, p)} : Removes(r)
            /\ \A q \in Paths :
                \A r \in {Fs_rename(nodes, p, q)} :
                    r.err = "ok" =>
                        LET sq == ParentAndName(q)
                            npar == Fs_get_node(nodes, sq[1]).node
                        IN  /\ par \in Dirs(r.nodes) =>
                                ListOf(r.nodes, par) =
                                    (ListOf(nodes, par) \ {sp[2]})
                                        \cup (IF npar = par THEN {sq[2]} ELSE {})
                            /\ (npar \in Dirs(r.nodes) /\ npar # par) =>
                                ListOf(r.nodes, npar) = ListOf(nodes, npar) \cup {sq[2]}
                            /\ OthersListTheSame(nodes, r.nodes, {par, npar})
            /\ \A m \in Modes : Keeps(Fs_chmod(nodes, p, m))
            /\ \A o \in Owners : Keeps(Fs_chown(nodes, p, o[1], o[2]))
            /\ Keeps(Fs_getattr(nodes, p))
            /\ \A k \in XattrNames :
                /\ Keeps(Fs_getxattr(nodes, p, k))
                /\ Keeps(Fs_removexattr(nodes, p, k))
                /\ \A v \in XattrValues : Keeps(Fs_setxattr(nodes, p, k, v))
            /\ Keeps(Fs_listxattr(nodes, p))
            /\ Keeps(Fs_open(nodes, p))
            /\ Keeps(Fs_readdir(nodes, p))
            /\ Keeps(Fs_readlink(nodes, p))
            /\ \A ts \in Times : Keeps(Fs_utimes(nodes, now, p, ts))
            /\ \A n \in {0, MaxOffset} :
                /\ Keeps(Fs_read(nodes, p, n, n))
                /\ Keeps(Fs_truncate(nodes, p, n))
                /\ \A b \in {<<>>, <<1>>} : Keeps(Fs_write(nodes, p, b, n))

\* a directory below the root that lists a name, and a rename that takes the
\* name out of it into the root
C13_Witness ==
    \E p \in {<<Sep, "a", Sep, "b">>, <<Sep, "b", Sep, "a">>} :
        LET sp == OsPathSplit(p) IN
        /\ Fs_get_node(nodes, p).err = "ok"
        /\ Fs_readdir(nodes, sp[1]).err = "ok"
        /\ Len(Fs_readdir(nodes, sp[1]).ret) = 3
        /\ Fs_rename(nodes, p, <<Sep>> \o sp[2]).err = "ok"

----------------------------------------------------------------------------
(* C14 *)

\* "/a", "/a/b.txt", "/c.txt", b"hello"
PathA == <<Sep, "a">>
PathAB == <<Sep, "a", Sep, "b", ".", "t", "x", "t">>
PathC == <<Sep, "c", ".", "t", "x", "t">>
Hello == <<104, 101, 108, 108, 111>>

\* a filesystem that holds nothing but its root
Empty(h) == DOMAIN h[Root].children = {} /\ Live(h) = {Root}

\* the k-th call of the scenario after its first; the calls of a scenario
\* are counted from MaxCalls on, so that no other call comes between them
ScenarioStep(k, r) ==
    /\ calls = MaxCalls + k
    /\ nodes' = r.nodes
    /\ calls' = calls + 1
    /\ UNCHANGED now

\* the scenario starts on an empty filesystem: a new one, or one that other
\* calls have emptied
Scenario_mkdir ==
    /\ calls <= MaxCalls
    /\ Empty(nodes)
    /\ nodes' = Fs_mkdir(nodes, now, PathA, 493).nodes
    /\ calls' = MaxCalls + 1
    /\ UNCHANGED now

Scenario_create == ScenarioStep(1, Fs_create(nodes, now, PathAB, 420))
Scenario_write == ScenarioStep(2, Fs_write(nodes, PathAB, Hello, 0))
Scenario_read == ScenarioStep(3, Fs_read(nodes, PathAB, 5, 0))
Scenario_rename == ScenarioStep(4, Fs_rename(nodes, PathAB, PathC))
Scenario_read_renamed == ScenarioStep(5, Fs_read(nodes, PathC, 5, 0))
Scenario_unlink == ScenarioStep(6, Fs_unlink(nodes, PathC))
Scenario_read_unlinked == ScenarioStep(7, Fs_read(nodes, PathC, 5, 0))

NextScenario ==
    \/ Next
    \/ Scenario_mkdir \/ Scenario_create \/ Scenario_write \/ Scenario_read
    \/ Scenario_rename \/ Scenario_read_renamed \/ Scenario_unlink
    \/ Scenario_read_unlinked

SpecScenario == Init /\ [][NextScenario]_vars

\* C14: on an empty filesystem the calls mkdir /a; create /a/b.txt;
\* write(/a/b.txt, "hello", 0); read(/a/b.txt, 5, 0); rename(/a/b.txt,
\* /c.txt); read(/c.txt, 5, 0); unlink(/c.txt); read(/c.txt, 5, 0) give, in
\* this order: create returns 1, write returns 5, the read returns "hello",
\* the read after the rename returns "hello", the read after the unlink
\* fails with NotFound.  Each conjunct states the result of the call that
\* comes next in the scenario.
C14_ScenarioResults ==
    /\ calls = MaxCalls + 1 =>
        LET r == Fs_create(nodes, now, PathAB, 420) IN r.err = "ok" /\ r.ret = 1
    /\ calls = MaxCalls + 2 =>
        LET r == Fs_write(nodes, PathAB, Hello, 0) IN r.err = "ok" /\ r.ret = 5
    /\ calls = MaxCalls + 3 =>
        LET r == Fs_read(nodes, PathAB, 5, 0) IN r.err = "ok" /\ r.ret = Hello
    /\ calls = MaxCalls + 4 => Fs_rename(nodes, PathAB, PathC).err = "ok"
    /\ calls = MaxCalls + 5 =>
        LET r == Fs_read(nodes, PathC, 5, 0) IN r.err = "ok" /\ r.ret = Hello
    /\ calls = MaxCalls + 6 => Fs_unlink(nodes, PathC).err = "ok"
    /\ calls = MaxCalls + 7 => Fs_read(nodes, PathC, 5, 0).err = "ENOENT"

\* the scenario has run to its end, on a filesystem that a create and an
\* unlink in the root had emptied before
C14_Witness ==
    /\ calls = MaxCalls + 8
    /\ nodes[Root].fd > 0
    /\ Fs_get_node(nodes, PathA).err = "ok"
    /\ Fs_get_node(nodes, PathC).err = "ENOENT"

----------------------------------------------------------------------------
(* C15 *)

\* C15: the handles returned for one file are strictly increasing: an open
\* right after the create that made the file returns a larger handle than
\* the create did, an open returns a larger handle than the open before it,
\* and no call on any node (a rename of the file included) lowers the
\* counter of a file.
C15_HandlesOfAFileIncrease ==
    /\ \A p \in Paths :
        LET o1 == Fs_open(nodes, p)
            o2 == Fs_open(o1.nodes, p)
        IN  /\ o1.err = "ok" => (o2.err = "ok" /\ o2.ret > o1.ret)
            /\ HasFree(nodes) =>
                \A m \in Modes :
                    LET c == Fs_create(nodes, now, p, m)
                        o == Fs_open(c.nodes, p)
                    IN  (c.err = "ok" /\ o.err = "ok") => o.ret > c.ret
    /\ \A c \in Outcomes(nodes, now) :
        \A f \in Files(nodes) \cap Files(c.nodes) : c.nodes[f].fd >= nodes[f].fd

----------------------------------------------------------------------------
(* C16 *)

\* Filesystem() with no root_node given: the default argument Directory() is
\* one object, built when the class is defined, and every such instance
\* refers to it
Filesystem_init == [root_node |-> Root, fd |-> 0]

\* two instances built that way: FsA is the one the calls of the
\* specification are made on, FsB is never called
FsA == Filesystem_init
FsB == Filesystem_init

\* what an instance exposes: its root and everything below it
View(h, fs) ==
    [n \in {fs.root_node} \cup Descendants(h, fs.root_node) |-> h[n]]

\* C16: a Filesystem built without a root node has a root of its own: no
\* sequence of calls on another such instance changes what it exposes, so
\* an instance that is never called exposes at all times the empty root it
\* was built with.
C16_InstancesAreIndependent ==
    View(nodes, FsB) = (FsB.root_node :> Directory_init(ImportTime))

----------------------------------------------------------------------------
(* C17 *)

\* the entries of directory d that are directories
DirEntries(h, d) == {c \in DOMAIN h[d].children : h[h[d].children[c]].kind = "dir"}

\* C17: in every reachable state the link count of every directory is 1
\* plus the number of its children that are directories, and so at least 1.
\* Stated for the directories whose st_nlink holds a number.
C17_LinkCountCountsSubdirectories ==
    \A d \in Dirs(nodes) :
        ("st_nlink" \in DOMAIN nodes[d].attr /\ IsInt(nodes[d].attr["st_nlink"])) =>
            /\ Val(nodes[d].attr["st_nlink"]) = 1 + Cardinality(DirEntries(nodes, d))
            /\ Val(nodes[d].attr["st_nlink"]) >= 1

----------------------------------------------------------------------------
(* C18 *)

\* C18: a facade call that fails, with whatever error, leaves the state as
\* it was: every child map, content, attribute, link count, handle counter
\* and extended attribute.
C18_FailedCallChangesNothing ==
    \A c \in Outcomes(nodes, now) : c.err # "ok" => c.nodes = nodes

----------------------------------------------------------------------------
(* C19 *)

\* C19: setxattr and removexattr change nothing but the extended attributes
\* of the node: its mode, owner, link count, size and timestamps stay, for
\* every key and value; and listxattr returns exactly the keys that
\* setxattr stored and removexattr has not removed.
C19_XattrOpsTouchOnlyXattrs ==
    \A p \in Paths :
        LET n == Fs_get_node(nodes, p)
            Stat(h) == [k \in StatKeys \cap DOMAIN h[n.node].attr |-> h[n.node].attr[k]]
        IN  n.err = "ok" =>
                /\ \A k \in StatKeys \cup XattrNames :
                    /\ \A v \in XattrValues :
                        Stat(Fs_setxattr(nodes, p, k, v).nodes) = Stat(nodes)
                    /\ Stat(Fs_removexattr(nodes, p, k).nodes) = Stat(nodes)
                /\ Fs_listxattr(nodes, p).err = "ok"
                /\ Fs_listxattr(nodes, p).ret = XattrKeys(nodes, n.node)

----------------------------------------------------------------------------
(* C20 *)

\* an attribute of a node, whatever it holds
AttrOf(h, n, k) == IF k \in DOMAIN h[n].attr THEN h[n].attr[k] ELSE <<"absent">>

\* what the tree exposes: the names of every directory and the node each
\* names, the content, size and mode of every file
Exposed(h) ==
    [n \in Live(h) |->
        IF n \in Dirs(h) THEN [children |-> h[n].children]
        ELSE [content |-> h[n].content, size |-> AttrOf(h, n, "st_size"),
              mode |-> AttrOf(h, n, "st_mode")]]

\* C20: on a Filesystem whose root is a read-only DictDirectory, every
\* mutating operation, on every path, fails with PermissionDenied, and no
\* call changes the names in a directory or the content, size or mode of a
\* file.
C20_ReadonlyTreeNeverChanges ==
    \A c \in Outcomes(nodes, now) :
        /\ c.op \in member_to_noop => c.err = "EPERM"
        /\ Exposed(c.nodes) = Exposed(nodes)

====
